---------------------------- MODULE Spec2Model ----------------------------
(***************************************************************************)
(* A model of phusic (src/src/phusic.py): the phase sequence built by      *)
(* Game._get_phases, the ring of nodes it is linked into, and the          *)
(* crossfade state machine driven by Game.run, Game._change_phase,         *)
(* Game._set_phase and Game._draw.  The state is the navigation and fade   *)
(* fields of Game, the mixer, the window and the size of the background    *)
(* images; the pixels and the text drawn over them are not part of it.     *)
(***************************************************************************)
EXTENDS Integers, Sequences, FiniteSets, TLC

(***************************************************************************)
(* Program constants (class Game).                                         *)
(***************************************************************************)
TOTAL_FADE_STEPS == 255

TRANSITION_DURATION == 5

FPS == 60

\* sizes are <<width, height>>
WINDOWED_SIZE == <<1280, 720>>

FULLSCREEN_SIZE == <<1920, 1080>>

\* pygame.display.set_mode((0, 0), pygame.FULLSCREEN) opens a window of the
\* size of the display, which is FULLSCREEN_SIZE on some machines only
DisplaySizes == {FULLSCREEN_SIZE, <<2560, 1440>>}

\* pygame.image.load(img_path): a background that was loaded and not scaled
\* has the size of its file, which nothing relates to the size of a window
AsLoaded == <<0, 0>>

(***************************************************************************)
(* Bounds of the model.                                                    *)
(***************************************************************************)
\* configurations of the running program: at most MaxRing nodes in the ring
MaxRing == 3

\* number of endings the configuration declares
NumEndings == 1

\* configurations handed to the sequence builder alone
MaxGroups == 3

MaxGroupLen == 3

(***************************************************************************)
(* Python floats.  fade_step and fade_step_increment are IEEE-754 doubles. *)
(* A double d with 0 <= d < 2^19 that is a multiple of 2^-53 is held as    *)
(* the integer d * 2^53, written in three limbs of 24 bits:                *)
(*     d * 2^53 = hi * 2^48 + mid * 2^24 + lo.                             *)
(* Every operation computes the exact result and then rounds it to 53      *)
(* significant bits, ties to even, as the hardware does.                   *)
(***************************************************************************)
Limb == 4096 * 4096

RECURSIVE Pow2(_)
Pow2(n) == IF n = 0 THEN 1 ELSE 2 * Pow2(n - 1)

RECURSIVE Log2(_)
Log2(n) == IF n <= 1 THEN 0 ELSE 1 + Log2(n \div 2)

Dbl(h, m, l) == [hi |-> h, mid |-> m, lo |-> l]

DblOfInt(n) == Dbl(n * 32, 0, 0)

\* carries of an unnormalised limb triple
DblNorm(h, m, l) ==
    LET m1 == m + (l \div Limb)
    IN  Dbl(h + (m1 \div Limb), m1 % Limb, l % Limb)

\* Round the exact value (h, m, l) + a fraction of one unit to a double.
\* frac describes the part below one unit: 0 none, 1 below a half,
\* 2 exactly a half, 3 above a half.
DblRound(h, m, l, frac) ==
    LET q    == IF h < 32 THEN 1 ELSE Pow2(Log2(h) - 4)
        r    == l % q
        half == q \div 2
        odd  == ((l \div q) % 2) = 1
        up   == IF q = 1
                THEN frac = 3 \/ (frac = 2 /\ odd)
                ELSE \/ r > half
                     \/ r = half /\ frac > 0
                     \/ r = half /\ frac = 0 /\ odd
    IN  DblNorm(h, m, (l - r) + (IF up THEN q ELSE 0))

\* a + b of two doubles
DblAdd(a, b) ==
    LET s == DblNorm(a.hi + b.hi, a.mid + b.mid, a.lo + b.lo)
    IN  DblRound(s.hi, s.mid, s.lo, 0)

\* a > n for a double a and an integer n
DblGtInt(a, n) ==
    \/ a.hi > n * 32
    \/ a.hi = n * 32 /\ (a.mid > 0 \/ a.lo > 0)

DblLess(a, b) ==
    \/ a.hi < b.hi
    \/ a.hi = b.hi /\ a.mid < b.mid
    \/ a.hi = b.hi /\ a.mid = b.mid /\ a.lo < b.lo

\* int(a) for a double a >= 0
DblInt(a) == a.hi \div 32

\* Long division of t * 2^53 by f in digits of 12 bits, most significant
\* first; the result is <<quotient digits, remainder>>.
RECURSIVE LongDiv(_, _, _, _)
LongDiv(digits, f, rem, acc) ==
    IF digits = <<>> THEN <<acc, rem>>
    ELSE LET cur == rem * 4096 + Head(digits)
         IN  LongDiv(Tail(digits), f, cur % f, Append(acc, cur \div f))

\* t / float(f) for integers 0 < f <= 2 * t, t < 2^14: the double nearest to t / f
DblDivInt(t, f) ==
    LET num == <<(t * 32) \div 4096, (t * 32) % 4096, 0, 0, 0, 0>>
        d   == LongDiv(num, f, 0, <<>>)
        qd  == d[1]
        rem == d[2]
        frac == IF rem = 0 THEN 0
                ELSE IF 2 * rem < f THEN 1
                ELSE IF 2 * rem = f THEN 2 ELSE 3
    IN  DblRound(qd[1] * 4096 + qd[2], qd[3] * 4096 + qd[4],
                 qd[5] * 4096 + qd[6], frac)

\* Game.__init__: the number of frames a transition is meant to take and the
\* amount fade_step grows by on every frame
frames_for_transition == TRANSITION_DURATION * FPS

fade_step_increment == DblDivInt(TOTAL_FADE_STEPS, frames_for_transition)


(***************************************************************************)
(* Values.  A Phase object is named by its group (position in              *)
(* config["phases"], from 1) and its index in the group (from 0, as the    *)
(* code counts); an Ending by its position in config["endings"].  Every    *)
(* Phase and Ending owns one pygame Sound.                                  *)
(***************************************************************************)
Phase(k, j) == [t |-> "phase", k |-> k, j |-> j]

Ending(e) == [t |-> "ending", k |-> e, j |-> 0]

None == [t |-> "None", k |-> 0, j |-> 0]

(***************************************************************************)
(* Keys.  The keys the event loop tests for by name, the keys the          *)
(* configuration binds to endings and to sound effects, and a key that is  *)
(* bound to nothing.                                                       *)
(***************************************************************************)
K_F11 == <<"K_F11", 0>>

K_f == <<"K_f", 0>>

K_LEFT == <<"K_LEFT", 0>>

K_RIGHT == <<"K_RIGHT", 0>>

K_SPACE == <<"K_SPACE", 0>>

K_c == <<"K_c", 0>>

K_x == <<"K_x", 0>>

\* Game._get_endings: one Ending per entry of config["endings"], with its key
endings == [e \in 1 .. NumEndings |-> <<"K_ending", e>>]

\* Game._get_sfx: one Sfx per entry of config["sfx"], with its key
sfx == << <<"K_sfx", 1>> >>

Keys ==
    {K_F11, K_f, K_LEFT, K_RIGHT, K_SPACE, K_c, K_x}
        \cup {endings[e] : e \in DOMAIN endings}
        \cup {sfx[i] : i \in DOMAIN sfx}

(***************************************************************************)
(* Game._get_phases, lines 118-127: the interleaving of the groups.        *)
(* groups[k] is len(phases[k]), the number of Phase objects of group k.    *)
(***************************************************************************)
RECURSIVE SeqMax(_)
SeqMax(s) ==
    IF Len(s) = 1 THEN s[1]
    ELSE LET m == SeqMax(Tail(s)) IN IF s[1] > m THEN s[1] ELSE m

RECURSIVE SeqSum(_)
SeqSum(s) == IF s = <<>> THEN 0 ELSE s[1] + SeqSum(Tail(s))

\* max() of an empty list raises ValueError; i % 0 raises ZeroDivisionError
\* (reached when a group is empty and another is not)
GetPhasesRaises(groups) ==
    \/ groups = <<>>
    \/ SeqMax(groups) > 0 /\ \E k \in DOMAIN groups : groups[k] = 0

\* ForPhase with a slip: a group that has run out of elements is passed over
RECURSIVE ForPhaseNoWrap(_, _, _, _)
ForPhaseNoWrap(groups, i, k, ordered_phases) ==
    IF k > Len(groups) THEN ordered_phases
    ELSE ForPhaseNoWrap(groups, i, k + 1,
                        IF i < groups[k]
                        THEN Append(ordered_phases, Phase(k, i))
                        ELSE ordered_phases)

\* ForPhase with a slip: a group that has run out repeats its last element
RECURSIVE ForPhaseClamped(_, _, _, _)
ForPhaseClamped(groups, i, k, ordered_phases) ==
    IF k > Len(groups) THEN ordered_phases
    ELSE ForPhaseClamped(groups, i, k + 1,
                         Append(ordered_phases,
                                Phase(k, IF i < groups[k] THEN i
                                         ELSE groups[k] - 1)))

\* for phase in phases: ordered_phases.append(phase[i % len(phase)])
RECURSIVE ForPhase(_, _, _, _)
ForPhase(groups, i, k, ordered_phases) ==
    IF k > Len(groups) THEN ordered_phases
    ELSE ForPhase(groups, i, k + 1,
                  Append(ordered_phases, Phase(k, i % groups[k])))

\* for i in range(max_length): ...
RECURSIVE ForRound(_, _, _, _)
ForRound(groups, i, max_length, ordered_phases) ==
    IF i >= max_length THEN ordered_phases
    ELSE ForRound(groups, i + 1, max_length,
                  ForPhase(groups, i, 1, ordered_phases))

GetPhases(groups) == ForRound(groups, 0, SeqMax(groups), <<>>)

(***************************************************************************)
(* linked_list.Node and util.create_linked_list: a Node holds a value and  *)
(* prev/next links.  The nodes of the ring are numbered 1..M in insertion  *)
(* order; a Node made by Node(x) has no links.                             *)
(***************************************************************************)
RingNode(i) == [kind |-> "ring", i |-> i]

\* Node(ending) for the e-th ending
EndingNode(e) == [kind |-> "ending", i |-> e]

\* Node(None)
Placeholder == [kind |-> "placeholder", i |-> 0]

\* Python's None where a Node is expected
NoNode == [kind |-> "None", i |-> 0]

NodeValue(ps, n) ==
    IF n.kind = "ring" THEN ps[n.i]
    ELSE IF n.kind = "ending" THEN Ending(n.i)
    ELSE None

NodeNext(ps, n) ==
    IF n.kind = "ring" THEN RingNode((n.i % Len(ps)) + 1) ELSE NoNode

NodePrev(ps, n) ==
    IF n.kind = "ring" THEN RingNode(((n.i + Len(ps) - 2) % Len(ps)) + 1)
    ELSE NoNode

ListHead(ps) == IF Len(ps) > 0 THEN RingNode(1) ELSE NoNode

(***************************************************************************)
(* The state: the configuration, the fields of the Game object, the mixer  *)
(* (for every Sound the number of channels playing it and its volume in    *)
(* 255ths), the window (the size of the display the program runs on, the   *)
(* size of the window and, for the backgrounds a specification follows,    *)
(* the size each was scaled to), the state of the process, and two records *)
(* of what happened:                                                       *)
(* ticks, the number of frames _draw has spent on the transition started   *)
(* last, and walk, the advances along the ring made in one direction since *)
(* the node walk.anchor was current (kept only when walk.on).              *)
(***************************************************************************)
VARIABLES config_phases, phases, status, curr_phase, next_phase, is_fading,
          fade_step, is_fullscreen, playing, volume, ticks, walk,
          display, window_size, background

vars == <<config_phases, phases, status, curr_phase, next_phase, is_fading,
          fade_step, is_fullscreen, playing, volume, ticks, walk,
          display, window_size, background>>

\* the Game object, the mixer and the backgrounds as one record, for the
\* methods to work on; applied collects the commands an input event is
\* routed to, and out the levels the step hands to set_alpha and set_volume
Game ==
    [phases |-> phases, status |-> status, curr_phase |-> curr_phase,
     next_phase |-> next_phase, is_fading |-> is_fading,
     fade_step |-> fade_step, is_fullscreen |-> is_fullscreen,
     playing |-> playing, volume |-> volume, applied |-> <<>>,
     ticks |-> ticks, display |-> display, window_size |-> window_size,
     background |-> background, out |-> <<>>]

\* The size of a background that belongs neither to the current node nor
\* to the node being faded in is read by nothing: _draw blits those two
\* only, _toggle_fullscreen loads the current one anew, and every path that
\* makes a node pending or current scales its background first (lines 179,
\* 200, 213).  The state keeps the sizes of the backgrounds in use and
\* records every other one as loaded.
InUse(g) ==
    {NodeValue(g.phases, g.curr_phase)}
        \cup (IF g.is_fading THEN {NodeValue(g.phases, g.next_phase)} ELSE {})

Backgrounds(g) ==
    [v \in DOMAIN g.background |->
        IF v \in InUse(g) THEN g.background[v] ELSE AsLoaded]

Install(g) ==
    /\ display' = g.display
    /\ window_size' = g.window_size
    /\ background' = Backgrounds(g)
    /\ phases' = g.phases
    /\ status' = g.status
    /\ curr_phase' = g.curr_phase
    /\ next_phase' = g.next_phase
    /\ is_fading' = g.is_fading
    /\ fade_step' = g.fade_step
    /\ is_fullscreen' = g.is_fullscreen
    /\ playing' = g.playing
    /\ volume' = g.volume
    /\ ticks' = g.ticks
    /\ UNCHANGED config_phases

\* every Sound there is: one per Phase object and one per Ending
Sounds(groups) ==
    UNION {{Phase(k, j) : j \in 0 .. (groups[k] - 1)} : k \in DOMAIN groups}
        \cup {Ending(e) : e \in DOMAIN endings}

FullVolume == 255

\* sound.play(-1): one more channel loops the sound
Play(g, v) == [g EXCEPT !.playing[v] = @ + 1]

\* sound.stop(): every channel playing the sound stops.  The volume of a
\* stopped Sound is read by nothing (each play() in the source follows a
\* set_volume() of the same Sound: lines 177-178, 198-199, 211-212), so the
\* mixer state keeps volumes of sounding Sounds only and a stopped Sound is
\* recorded at the volume it was created with.
Stop(g, v) == [g EXCEPT !.playing[v] = 0, !.volume[v] = FullVolume]

\* sound.set_volume(n / 255.0)
SetVolume(g, v, n) ==
    [g EXCEPT !.volume[v] = n, !.out = Append(@, <<"set_volume", v, n>>)]

\* background.set_alpha(n)
SetAlpha(g, v, n) == [g EXCEPT !.out = Append(@, <<"set_alpha", v, n>>)]

\* phase.background = pygame.transform.scale(phase.background,
\* self.window_size), for the backgrounds the specification follows
Scale(g, v) ==
    IF v \in DOMAIN g.background
    THEN [g EXCEPT !.background[v] = g.window_size]
    ELSE g

(***************************************************************************)
(* Game._initial_phase, lines 175-179.                                     *)
(***************************************************************************)
InitialPhase(g) ==
    LET phase == NodeValue(g.phases, g.curr_phase)
    IN  Scale(Play(SetVolume(g, phase, FullVolume), phase), phase)

\* ChangePhase with a slip: the fade is reset before the test of is_fading
ChangePhaseResetsProgress(g, phase_node) ==
    IF g.is_fading THEN [g EXCEPT !.fade_step = DblOfInt(0)]
    ELSE LET node  == IF phase_node = NoNode THEN ListHead(g.phases)
                      ELSE phase_node
             phase == NodeValue(g.phases, node)
             g1    == [g EXCEPT !.is_fading = TRUE,
                                !.fade_step = DblOfInt(0),
                                !.next_phase = node,
                                !.ticks = 0]
         IN  Scale(Play(SetVolume(g1, phase, 0), phase), phase)

\* ChangePhase with a slip: is_fading is tested after the transition was
\* set up, so a request made during a transition starts it over
ChangePhaseRestarts(g, phase_node) ==
    LET node  == IF phase_node = NoNode THEN ListHead(g.phases)
                 ELSE phase_node
        phase == NodeValue(g.phases, node)
        g1    == [g EXCEPT !.is_fading = TRUE,
                           !.fade_step = DblOfInt(0),
                           !.next_phase = node,
                           !.ticks = 0]
    IN  IF g.is_fading THEN [g1 EXCEPT !.next_phase = g.next_phase]
        ELSE Scale(Play(SetVolume(g1, phase, 0), phase), phase)

\* ChangePhase with a slip: a request without a target is dropped
ChangePhaseDropsNull(g, phase_node) ==
    IF g.is_fading \/ phase_node = NoNode THEN g
    ELSE LET phase == NodeValue(g.phases, phase_node)
             g1    == [g EXCEPT !.is_fading = TRUE,
                                !.fade_step = DblOfInt(0),
                                !.next_phase = phase_node,
                                !.ticks = 0]
         IN  Scale(Play(SetVolume(g1, phase, 0), phase), phase)

\* ChangePhase with a slip: the target is made current when the fade starts
ChangePhaseMovesCurr(g, phase_node) ==
    IF g.is_fading THEN g
    ELSE LET node  == IF phase_node = NoNode THEN ListHead(g.phases)
                      ELSE phase_node
             phase == NodeValue(g.phases, node)
             g1    == [g EXCEPT !.is_fading = TRUE,
                                !.fade_step = DblOfInt(0),
                                !.next_phase = node,
                                !.curr_phase = node,
                                !.ticks = 0]
         IN  Scale(Play(SetVolume(g1, phase, 0), phase), phase)

(***************************************************************************)
(* Game._change_phase, lines 181-200: the soft move.                       *)
(***************************************************************************)
ChangePhase(g, phase_node) ==
    IF g.is_fading THEN g
    ELSE IF phase_node = NoNode /\ ListHead(g.phases) = NoNode
    THEN [g EXCEPT !.status = "exit1"]
    ELSE LET node  == IF phase_node = NoNode THEN ListHead(g.phases)
                      ELSE phase_node
             phase == NodeValue(g.phases, node)
             g1    == [g EXCEPT !.is_fading = TRUE,
                                !.fade_step = DblOfInt(0),
                                !.next_phase = node,
                                !.ticks = 0]
         IN  Scale(Play(SetVolume(g1, phase, 0), phase), phase)

\* SetPhase with a slip: the sound of the current node is not stopped
SetPhaseNoStop(g, phase_node) ==
    LET next_value == NodeValue(g.phases, g.next_phase)
        g1 == IF next_value # None THEN Stop(g, next_value) ELSE g
        g3 == [g1 EXCEPT !.is_fading = FALSE,
                         !.fade_step = DblOfInt(0),
                         !.ticks = 0]
        phase == NodeValue(g.phases, phase_node)
    IN  IF phase_node = NoNode THEN [g3 EXCEPT !.status = "crashed"]
        ELSE [Scale(Play(SetVolume(g3, phase, FullVolume), phase), phase)
                 EXCEPT !.curr_phase = phase_node]

(***************************************************************************)
(* Game._set_phase, lines 202-215: the hard jump.  phase_node.value of     *)
(* None raises AttributeError after the sounds were stopped and the fade   *)
(* cleared.                                                                *)
(***************************************************************************)
SetPhase(g, phase_node) ==
    LET next_value == NodeValue(g.phases, g.next_phase)
        g1 == IF next_value # None THEN Stop(g, next_value) ELSE g
        g2 == Stop(g1, NodeValue(g.phases, g.curr_phase))
        g3 == [g2 EXCEPT !.is_fading = FALSE,
                         !.fade_step = DblOfInt(0),
                         !.ticks = 0]
        phase == NodeValue(g.phases, phase_node)
    IN  IF phase_node = NoNode THEN [g3 EXCEPT !.status = "crashed"]
        ELSE [Scale(Play(SetVolume(g3, phase, FullVolume), phase), phase)
                 EXCEPT !.curr_phase = phase_node]

\* Draw with a slip: the transition ends without curr_phase being assigned
DrawKeepsCurr(g) ==
    IF ~g.is_fading THEN g
    ELSE LET curr  == NodeValue(g.phases, g.curr_phase)
             next  == NodeValue(g.phases, g.next_phase)
             alpha == DblInt(g.fade_step) * (255 \div TOTAL_FADE_STEPS)
             g1    == SetVolume(SetAlpha(g, next, alpha), next, alpha)
             g2    == SetVolume(g1, curr, FullVolume - alpha)
             g3    == [g2 EXCEPT
                         !.fade_step = DblAdd(g.fade_step, fade_step_increment),
                         !.ticks = @ + 1]
         IN  IF DblGtInt(g3.fade_step, TOTAL_FADE_STEPS)
             THEN [Stop(g3, curr) EXCEPT !.is_fading = FALSE]
             ELSE g3

\* Draw with a slip: the volumes are taken from the progress after the
\* frame's increment, the alpha from the progress before it
DrawVolumeLeads(g) ==
    IF ~g.is_fading THEN g
    ELSE LET curr  == NodeValue(g.phases, g.curr_phase)
             next  == NodeValue(g.phases, g.next_phase)
             alpha == DblInt(g.fade_step) * (255 \div TOTAL_FADE_STEPS)
             ahead == DblInt(DblAdd(g.fade_step, fade_step_increment))
             g1    == SetVolume(SetAlpha(g, next, alpha), next, ahead)
             g2    == SetVolume(g1, curr, FullVolume - ahead)
             g3    == [g2 EXCEPT
                         !.fade_step = DblAdd(g.fade_step, fade_step_increment),
                         !.ticks = @ + 1]
         IN  IF DblGtInt(g3.fade_step, TOTAL_FADE_STEPS)
             THEN [Stop(g3, curr) EXCEPT !.is_fading = FALSE,
                                         !.curr_phase = g.next_phase]
             ELSE g3

(***************************************************************************)
(* Game._draw, lines 217-254: one frame.  alpha is                         *)
(* int(fade_step * (255 / TOTAL_FADE_STEPS)); the factor is exactly 1.0.   *)
(* Levels are written in 255ths: new_volume = alpha / 255.0 is the level   *)
(* alpha, and 1.0 - new_volume is the level FullVolume - alpha (the double *)
(* nearest to the difference, which added to new_volume gives 1.0 for      *)
(* every alpha of 0..255).                                                 *)
(***************************************************************************)
Draw(g) ==
    IF ~g.is_fading THEN g
    ELSE LET curr  == NodeValue(g.phases, g.curr_phase)
             next  == NodeValue(g.phases, g.next_phase)
             alpha == DblInt(g.fade_step) * (255 \div TOTAL_FADE_STEPS)
             g1    == SetVolume(SetAlpha(g, next, alpha), next, alpha)
             g2    == SetVolume(g1, curr, FullVolume - alpha)
             g3    == [g2 EXCEPT
                         !.fade_step = DblAdd(g.fade_step, fade_step_increment),
                         !.ticks = @ + 1]
         IN  IF DblGtInt(g3.fade_step, TOTAL_FADE_STEPS)
             THEN [Stop(g3, curr) EXCEPT !.is_fading = FALSE,
                                         !.curr_phase = g.next_phase]
             ELSE g3

(***************************************************************************)
(* Game._toggle_fullscreen, lines 161-173: the window is opened anew in    *)
(* the other mode, window_size becomes its size, and the background of the *)
(* current node, and of no other, is loaded again and scaled to it (an     *)
(* Ending is taken to keep its img_path as a Phase does).                  *)
(***************************************************************************)
ToggleFullscreen(g) ==
    LET size == IF ~g.is_fullscreen THEN g.display ELSE WINDOWED_SIZE
        g1   == [g EXCEPT !.is_fullscreen = ~@, !.window_size = size]
    IN  Scale(g1, NodeValue(g.phases, g.curr_phase))

(***************************************************************************)
(* Game.run, lines 62-88: the routing of one KEYDOWN event.  Each test of  *)
(* the handler runs in turn, unless the process has ended meanwhile.       *)
(***************************************************************************)
Alive(g) == g.status = "running"

Did(g, command) == [g EXCEPT !.applied = Append(@, command)]

\* lines 63-64
OnToggleKey(g, key) ==
    IF Alive(g) /\ key \in {K_F11, K_f}
    THEN ToggleFullscreen(Did(g, "toggle_display_mode"))
    ELSE g

\* lines 66-67
OnLeft(g, key) ==
    IF Alive(g) /\ key = K_LEFT
    THEN ChangePhase(Did(g, "soft_backward"), NodePrev(g.phases, g.curr_phase))
    ELSE g

\* lines 69-70
OnRight(g, key) ==
    IF Alive(g) /\ key \in {K_RIGHT, K_SPACE}
    THEN ChangePhase(Did(g, "soft_forward"), NodeNext(g.phases, g.curr_phase))
    ELSE g

\* OnCtrl with a slip: both arrows jump to the next node
OnCtrlBothNext(g, key, ctrl) ==
    IF ~(Alive(g) /\ ctrl) THEN g
    ELSE IF key = K_LEFT
    THEN SetPhase(Did(g, "hard_backward"), NodeNext(g.phases, g.curr_phase))
    ELSE IF key = K_RIGHT
    THEN SetPhase(Did(g, "hard_forward"), NodeNext(g.phases, g.curr_phase))
    ELSE IF key = K_c
    THEN [Did(g, "quit") EXCEPT !.status = "exited"]
    ELSE g

\* lines 72-79
OnCtrl(g, key, ctrl) ==
    IF ~(Alive(g) /\ ctrl) THEN g
    ELSE IF key = K_LEFT
    THEN SetPhase(Did(g, "hard_backward"), NodePrev(g.phases, g.curr_phase))
    ELSE IF key = K_RIGHT
    THEN SetPhase(Did(g, "hard_forward"), NodeNext(g.phases, g.curr_phase))
    ELSE IF key = K_c
    THEN [Did(g, "quit") EXCEPT !.status = "exited"]
    ELSE g

\* OnEndingKeys with a slip: the ending is jumped to without a fade
RECURSIVE OnEndingKeysJumps(_, _, _)
OnEndingKeysJumps(g, key, e) ==
    IF e > Len(endings) THEN g
    ELSE OnEndingKeysJumps(
           IF Alive(g) /\ key = endings[e]
           THEN SetPhase(Did(g, "jump_to_ending"), EndingNode(e))
           ELSE g,
           key, e + 1)

\* lines 81-84
RECURSIVE OnEndingKeys(_, _, _)
OnEndingKeys(g, key, e) ==
    IF e > Len(endings) THEN g
    ELSE OnEndingKeys(
           IF Alive(g) /\ key = endings[e]
           THEN ChangePhase(Did(g, "jump_to_ending"), EndingNode(e))
           ELSE g,
           key, e + 1)

\* OnSfxKeys with a slip: the sound of the current node is turned down to
\* let the effect through
RECURSIVE OnSfxKeysDucks(_, _, _)
OnSfxKeysDucks(g, key, i) ==
    IF i > Len(sfx) THEN g
    ELSE OnSfxKeysDucks(
           IF Alive(g) /\ key = sfx[i]
           THEN SetVolume(Did(g, "fire_sfx"),
                          NodeValue(g.phases, g.curr_phase), FullVolume \div 2)
           ELSE g,
           key, i + 1)

\* lines 86-88: sfx.sound.play() plays the Sound of the Sfx, which no Phase
\* and no Ending owns
RECURSIVE OnSfxKeys(_, _, _)
OnSfxKeys(g, key, i) ==
    IF i > Len(sfx) THEN g
    ELSE OnSfxKeys(
           IF Alive(g) /\ key = sfx[i] THEN Did(g, "fire_sfx") ELSE g,
           key, i + 1)

HandleKeyDown(g, key, ctrl) ==
    LET g1 == OnToggleKey(g, key)
        g2 == OnLeft(g1, key)
        g3 == OnRight(g2, key)
        g4 == OnCtrl(g3, key, ctrl)
        g5 == OnEndingKeys(g4, key, 1)
    IN  OnSfxKeys(g5, key, 1)

(***************************************************************************)
(* Configurations.                                                         *)
(***************************************************************************)
SeqsUpTo(S, n) == UNION {[1 .. m -> S] : m \in 0 .. n}

\* what the sequence builder is tried on: up to MaxGroups groups of up to
\* MaxGroupLen images, empty groups and no groups included
BuildConfigs == SeqsUpTo(0 .. MaxGroupLen, MaxGroups)

\* what the program is run on: the groups whose ring has at most MaxRing nodes
RunConfigs ==
    {c \in SeqsUpTo(1 .. MaxRing, MaxRing) :
        c # <<>> /\ Len(c) * SeqMax(c) <= MaxRing}

\* what the program is run on with the backgrounds followed
DisplayConfigs == {c \in RunConfigs : Len(c) * SeqMax(c) < MaxRing}

(***************************************************************************)
(* The record of advances.  An advance is a hard jump along the ring or a  *)
(* soft move along the ring that ran to completion; walk.n counts the      *)
(* advances made in direction walk.dir since walk.anchor was current, and  *)
(* walk.pending is the direction of the soft move in flight.               *)
(***************************************************************************)
NoWalk == [on |-> FALSE, anchor |-> NoNode, dir |-> "none", n |-> 0,
           pending |-> "none"]

WalkFrom(node) == [on |-> TRUE, anchor |-> node, dir |-> "none", n |-> 0,
                   pending |-> "none"]

Has(s, x) == \E i \in DOMAIN s : s[i] = x

\* one advance from node `from` in direction d
Advanced(w, from, d, m) ==
    IF d = "none" \/ from.kind # "ring" THEN w
    ELSE IF w.dir \in {"none", d} /\ w.n < m /\ w.anchor.kind = "ring"
    THEN [w EXCEPT !.dir = d, !.n = @ + 1, !.pending = "none"]
    ELSE [w EXCEPT !.anchor = from, !.dir = d, !.n = 1, !.pending = "none"]

\* the record after a step of the program from `before` to `after`
WalkAfter(w, before, after) ==
    LET m == Len(before.phases)
        hard == IF Has(after.applied, "hard_forward") THEN "forward"
                ELSE IF Has(after.applied, "hard_backward") THEN "backward"
                ELSE "none"
        soft == IF Has(after.applied, "soft_forward") THEN "forward"
                ELSE IF Has(after.applied, "soft_backward") THEN "backward"
                ELSE "none"
    IN  IF ~w.on \/ after.status # "running" THEN w
        ELSE IF hard # "none"
        THEN Advanced(w, before.curr_phase, hard, m)
        ELSE IF ~before.is_fading /\ after.is_fading
        THEN [w EXCEPT !.pending =
                 IF before.curr_phase.kind = "ring" THEN soft ELSE "none"]
        ELSE IF before.is_fading /\ ~after.is_fading
        THEN IF w.pending = "none" THEN WalkFrom(after.curr_phase)
             ELSE Advanced(w, before.curr_phase, w.pending, m)
        ELSE w

Blank(c) ==
    /\ config_phases = c
    /\ phases = <<>>
    /\ status = "new"
    /\ curr_phase = NoNode
    /\ next_phase = NoNode
    /\ is_fading = FALSE
    /\ fade_step = DblOfInt(0)
    /\ is_fullscreen = TRUE
    /\ playing = [v \in Sounds(c) |-> 0]
    /\ volume = [v \in Sounds(c) |-> FullVolume]
    /\ ticks = 0
    /\ window_size = FULLSCREEN_SIZE

\* the backgrounds are followed by DisplaySpec only
NoBackgrounds == [v \in {} |-> AsLoaded]

Init ==
    \E c \in RunConfigs :
        /\ Blank(c) /\ walk = NoWalk
        /\ display = FULLSCREEN_SIZE /\ background = NoBackgrounds

BuildInit ==
    \E c \in BuildConfigs :
        /\ Blank(c) /\ walk = NoWalk
        /\ display = FULLSCREEN_SIZE /\ background = NoBackgrounds

RingInit ==
    \E c \in RunConfigs :
        /\ Blank(c) /\ walk = WalkFrom(NoNode)
        /\ display = FULLSCREEN_SIZE /\ background = NoBackgrounds

\* every Phase and Ending loads its background when it is made
DisplayInit ==
    \E c \in DisplayConfigs, d \in DisplaySizes :
        /\ Blank(c) /\ walk = NoWalk
        /\ display = d /\ background = [v \in Sounds(c) |-> AsLoaded]

(***************************************************************************)
(* Game.__init__, lines 24-51.  An exception of _get_phases ends the        *)
(* program before the loop (status "error"); so does a sequence with no    *)
(* element, which _get_phases returns and which cannot be linked into a    *)
(* ring (status "empty").                                                  *)
(***************************************************************************)
Construct ==
    /\ status = "new"
    /\ IF GetPhasesRaises(config_phases)
       THEN Install([Game EXCEPT !.status = "error"])
       ELSE LET ps == GetPhases(config_phases)
            IN  IF ListHead(ps) = NoNode
                THEN Install([Game EXCEPT !.phases = ps, !.status = "empty"])
                ELSE Install([Game EXCEPT !.phases = ps,
                                          !.status = "ready",
                                          !.curr_phase = ListHead(ps),
                                          !.next_phase = Placeholder])
    /\ UNCHANGED walk

\* Game.run, lines 54-56
Start ==
    /\ status = "ready"
    /\ Install([InitialPhase(Game) EXCEPT !.status = "running"])
    /\ walk' = IF walk.on THEN WalkFrom(curr_phase) ELSE walk

\* Game.run, lines 59 and 62-88: one KEYDOWN event taken from the queue
KeyDown(key, ctrl) ==
    /\ status = "running"
    /\ \E g \in {HandleKeyDown(Game, key, ctrl)} :
          Install(g) /\ walk' = WalkAfter(walk, Game, g)

\* Game.run, lines 60-61 and 90-94: the QUIT event, taken as the last event
\* of its batch, ends the loop after the frame is drawn
QuitEvent ==
    /\ status = "running"
    /\ \E g \in {Draw(Game)} : Install([g EXCEPT !.status = "exited"])
    /\ UNCHANGED walk

\* Game.run, lines 90-91: the frame that ends an iteration of the loop
Tick ==
    /\ status = "running"
    /\ \E g \in {Draw(Game)} :
          Install(g) /\ walk' = WalkAfter(walk, Game, g)

Next ==
    \/ Construct
    \/ Start
    \/ \E key \in Keys, ctrl \in BOOLEAN : KeyDown(key, ctrl)
    \/ QuitEvent
    \/ Tick

Spec == Init /\ [][Next]_vars

\* the sequence builder alone, on every configuration of BuildConfigs
BuildSpec == BuildInit /\ [][Construct]_vars

\* Game.run, lines 58 and 90-91: a frame drawn while a transition is in
\* flight, which is what a step of Tick (or the last frame, drawn by
\* QuitEvent) is in such a state: _draw counts it against the transition
FadeFrame == status = "running" /\ is_fading /\ ticks' = ticks + 1

\* the loop keeps drawing frames: clock.tick returns and _draw is called
\* again for as long as the loop runs
LiveSpec == Init /\ [][Next]_vars /\ WF_ticks(FadeFrame)

\* advances along the ring only, with the record of advances kept
RingNext ==
    \/ Construct
    \/ Start
    \/ \E key \in {K_LEFT, K_RIGHT, K_SPACE}, ctrl \in BOOLEAN :
          KeyDown(key, ctrl)
    \/ Tick

RingSpec == RingInit /\ [][RingNext]_vars

\* the program with the sizes of the backgrounds followed
DisplaySpec == DisplayInit /\ [][Next]_vars

(***************************************************************************)
(* Properties.                                                             *)
(***************************************************************************)
Running == status = "running"

\* what a method leaves behind, the records of the step apart
Program(g) == [g EXCEPT !.applied = <<>>, !.out = <<>>]

\* the targets a jump can be given: the nodes of the ring and Node(ending)
Targets ==
    {RingNode(i) : i \in DOMAIN phases} \cup {EndingNode(e) : e \in DOMAIN endings}

SoftCommands == {"soft_forward", "soft_backward", "jump_to_ending"}

\* the event was routed to soft moves and to nothing else
SoftOnly(commands) ==
    /\ commands # <<>>
    /\ \A i \in DOMAIN commands : commands[i] \in SoftCommands

\* C1: while a transition is in flight, an event that asks for a soft move
\* (forward, backward or an ending key) changes nothing: pending, progress,
\* current and the mixer are as they were.
RedundantSoftMoveDropped ==
    (Running /\ is_fading) =>
        \A key \in Keys, ctrl \in BOOLEAN :
            LET g == HandleKeyDown(Game, key, ctrl)
            IN  SoftOnly(g.applied) => Program(g) = Game

\* C1 witness: two frames into a transition to the node after current, a
\* request for a different node (the one before current) is dropped.
RedundantSoftMoveSeen ==
    /\ Running /\ is_fading /\ ticks = 2
    /\ next_phase = NodeNext(phases, curr_phase)
    /\ NodePrev(phases, curr_phase) # next_phase
    /\ HandleKeyDown(Game, K_LEFT, FALSE).applied = <<"soft_backward">>
    /\ Program(HandleKeyDown(Game, K_LEFT, FALSE)) = Game

\* C2 (as claimed): a hard jump, forward or backward, is accepted in every
\* state the loop can be in: it leaves the program running and Steady, with
\* progress 0 and the target node current.
HardJumpAlwaysAccepted ==
    Running =>
        \A key \in {K_LEFT, K_RIGHT} :
            LET g == HandleKeyDown(Game, key, TRUE)
                target == IF key = K_LEFT THEN NodePrev(phases, curr_phase)
                          ELSE NodeNext(phases, curr_phase)
            IN  /\ g.status = "running"
                /\ ~g.is_fading
                /\ g.fade_step = DblOfInt(0)
                /\ g.curr_phase = target
                /\ target \in Targets

\* C3 (as claimed): a soft move that ran to completion took exactly
\* frames_for_transition = TRANSITION_DURATION * FPS frames.
FadeTakesFramesForTransition ==
    (Running /\ ~is_fading /\ ticks > 0) => ticks = frames_for_transition

\* what the code does: the transition is still in flight after
\* frames_for_transition frames and ends on the frame after
FadeTakesOneFrameMore ==
    /\ (Running /\ ~is_fading /\ ticks > 0) => ticks = frames_for_transition + 1
    /\ (Running /\ is_fading) => ticks <= frames_for_transition

\* C4: a soft move resets progress to 0; every frame of the transition adds
\* the constant increment, so progress strictly increases; the frame on
\* which it exceeds TOTAL_FADE_STEPS makes the engine Steady with the node
\* that was pending as current, and no earlier frame does.
TransitionMonotone ==
    [][ /\ (~is_fading /\ is_fading') =>
              (fade_step' = DblOfInt(0) /\ curr_phase' = curr_phase)
        /\ (is_fading /\ ticks' = ticks + 1) =>
              /\ DblLess(fade_step, fade_step')
              /\ fade_step' = DblAdd(fade_step, fade_step_increment)
              /\ IF DblGtInt(fade_step', TOTAL_FADE_STEPS)
                 THEN ~is_fading' /\ curr_phase' = next_phase
                 ELSE is_fading' /\ curr_phase' = curr_phase
                      /\ next_phase' = next_phase ]_vars

\* C4 witness: a transition to another node has just completed.
TransitionCompleted ==
    /\ Running /\ ~is_fading /\ ticks > 0
    /\ DblGtInt(fade_step, TOTAL_FADE_STEPS)
    /\ curr_phase = next_phase
    /\ curr_phase # ListHead(phases)

\* C5 (as claimed): every KEYDOWN event is routed to at most one command.
AtMostOneCommand ==
    Running =>
        \A key \in Keys, ctrl \in BOOLEAN :
            Len(HandleKeyDown(Game, key, ctrl).applied) <= 1

\* C6 (as claimed): the built sequence is as long as the groups together.
LengthIsSumOfGroups ==
    status = "ready" => Len(phases) = SeqSum(config_phases)

\* C6 (amended): the built sequence holds one element per group for each of
\* max L_k rounds: its length is K * max L_k.
LengthIsGroupsTimesRounds ==
    status = "ready" =>
        Len(phases) = Len(config_phases) * SeqMax(config_phases)

\* C6 witness: groups of 2 and 3 images give 6 elements.
TwoAndThreeGiveSix ==
    status = "ready" /\ config_phases = <<2, 3>> /\ Len(phases) = 6

\* C7: for every round i below max L_k, the i-th block of K elements is
\* group k's element i mod L_k for k = 1..K, in the order of the groups.
RoundRobin ==
    status = "ready" =>
        LET K == Len(config_phases)
        IN  \A i \in 0 .. (SeqMax(config_phases) - 1) :
                \A k \in 1 .. K :
                    phases[i * K + k] = Phase(k, i % config_phases[k])

\* C7 witness: with groups of 1 and 3 images the short group wraps around:
\* its only element opens every round.
ShortGroupWraps ==
    /\ status = "ready" /\ config_phases = <<1, 3>>
    /\ phases[1] = Phase(1, 0) /\ phases[3] = Phase(1, 0)
    /\ phases[5] = Phase(1, 0) /\ phases[6] = Phase(2, 2)

\* C8: a second hard jump to the same node X changes nothing: after one as
\* after two the engine is Steady on X with progress 0, X's sound loops on
\* one channel at full volume and no other sound plays.
HardJumpIdempotent ==
    Running =>
        \A X \in Targets :
            LET once  == SetPhase(Game, X)
                twice == SetPhase(once, X)
                x     == NodeValue(phases, X)
            IN  /\ Program(twice) = Program(once)
                /\ once.status = "running"
                /\ ~once.is_fading
                /\ once.curr_phase = X
                /\ once.fade_step = DblOfInt(0)
                /\ once.playing[x] = 1
                /\ once.volume[x] = FullVolume
                /\ \A v \in DOMAIN once.playing \ {x} : once.playing[v] = 0

\* C8 witness: the state a hard jump made out of a transition (progress is 0
\* and pending is a node), in which the same jump again changes nothing.
HardJumpRepeated ==
    /\ Running /\ ~is_fading /\ fade_step = DblOfInt(0)
    /\ next_phase \in Targets /\ next_phase # curr_phase
    /\ Program(SetPhase(Game, curr_phase)) = Game

\* C9: for as long as the loop runs, a transition in flight comes to an end,
\* and it never spends more than frames_for_transition + 1 frames, whatever
\* events arrive between the frames.
TransitionEnds ==
    /\ [](is_fading => ticks <= frames_for_transition)
    /\ (Running /\ is_fading) ~> (~is_fading \/ ~Running)

\* C9 witness: a transition one frame from its end.
TransitionAboutToEnd ==
    Running /\ is_fading /\ ticks = frames_for_transition

\* C10: after as many advances in one direction as the ring has nodes, each
\* a hard jump or a soft move run to completion, the node the walk started
\* from is current again.
RingReturn ==
    (walk.on /\ Running /\ ~is_fading /\ walk.n = Len(phases)) =>
        curr_phase = walk.anchor

\* C10 witness: a walk backward round a ring of three nodes or more, whose
\* last advance was a soft move run to completion.
WalkedRoundBackward ==
    /\ walk.on /\ Running /\ ~is_fading
    /\ Len(phases) >= 3 /\ walk.n = Len(phases)
    /\ walk.dir = "backward" /\ ticks > 0
    /\ curr_phase = walk.anchor

\* C11: in Steady state the key of an ending starts a transition at once,
\* whatever node is current: the event is routed to the jump to that ending
\* only, pending is a node that holds the Ending and has no links, progress
\* is 0 and current is as it was; every frame of the transition but the last
\* leaves current and pending alone, and the last makes the node of the
\* Ending current.
EndingKeyStartsTransition ==
    /\ [](Running /\ ~is_fading =>
            \A e \in DOMAIN endings, ctrl \in BOOLEAN :
                LET g == HandleKeyDown(Game, endings[e], ctrl)
                IN  /\ g.applied = <<"jump_to_ending">>
                    /\ g.status = "running"
                    /\ g.is_fading
                    /\ g.fade_step = DblOfInt(0)
                    /\ g.next_phase = EndingNode(e)
                    /\ NodeValue(g.phases, g.next_phase) = Ending(e)
                    /\ NodeNext(g.phases, g.next_phase) = NoNode
                    /\ NodePrev(g.phases, g.next_phase) = NoNode
                    /\ g.curr_phase = curr_phase)
    /\ [][ (Running /\ is_fading /\ next_phase.kind = "ending"
              /\ ticks' = ticks + 1) =>
                IF is_fading'
                THEN curr_phase' = curr_phase /\ next_phase' = next_phase
                ELSE curr_phase' = next_phase ]_vars

\* C11 witness: the transition an ending key started has completed: the node
\* of the Ending is current, its sound loops and the first phase's is stopped.
EndingReached ==
    /\ Running /\ ~is_fading /\ ticks = frames_for_transition + 1
    /\ curr_phase = EndingNode(1) /\ next_phase = EndingNode(1)
    /\ NodeValue(phases, curr_phase) = Ending(1)
    /\ playing[Phase(1, 0)] = 0 /\ playing[Ending(1)] = 1

\* C12: the key of a sound effect fires the effect and touches nothing
\* else: current, pending, progress, the fading flag, and of every Phase and
\* Ending sound the channels playing it and its volume are as they were, and
\* no level is handed to set_volume or set_alpha.
SfxTouchesNothing ==
    Running =>
        \A i \in DOMAIN sfx, ctrl \in BOOLEAN :
            LET g == HandleKeyDown(Game, sfx[i], ctrl)
            IN  /\ Has(g.applied, "fire_sfx")
                /\ g.out = <<>>
                /\ Program(g) = Game

\* C12 witness: half way through a transition between two different sounds
\* the effect is fired and the two volumes and the progress stay.
SfxFiredMidTransition ==
    /\ Running /\ is_fading /\ 2 * ticks = frames_for_transition
    /\ NodeValue(phases, curr_phase) # NodeValue(phases, next_phase)
    /\ volume[NodeValue(phases, next_phase)] > 0
    /\ HandleKeyDown(Game, sfx[1], FALSE).applied = <<"fire_sfx">>
    /\ Program(HandleKeyDown(Game, sfx[1], FALSE)) = Game

\* the step is what the handler makes of a hard jump, forward or backward
IsHardJump ==
    \E key \in {K_LEFT, K_RIGHT} :
        LET g == HandleKeyDown(Game, key, TRUE)
        IN  /\ g.curr_phase = curr_phase' /\ g.next_phase = next_phase'
            /\ g.is_fading = is_fading' /\ g.fade_step = fade_step'
            /\ g.playing = playing' /\ g.volume = volume'
            /\ g.status = status' /\ g.ticks = ticks'

\* C13: while the loop runs, current is assigned by the completion of a
\* transition and by a hard jump only.  The start of a soft move leaves
\* current alone and makes the target pending; while the transition lasts
\* pending stays that node and every frame but the last leaves current
\* alone; the completing frame makes current the node that was pending.
CurrentAssignedOnCompletionOrJump ==
    [][ Running =>
          /\ curr_phase' # curr_phase =>
                \/ is_fading /\ ~is_fading' /\ ticks' = ticks + 1
                \/ IsHardJump
          /\ (~is_fading /\ is_fading') =>
                curr_phase' = curr_phase /\ next_phase' \in Targets
          /\ (is_fading /\ is_fading') =>
                curr_phase' = curr_phase /\ next_phase' = next_phase
          /\ (is_fading /\ ~is_fading' /\ ticks' = ticks + 1) =>
                curr_phase' = next_phase ]_vars

\* C13 witness: the third node of the ring has become current by the
\* completion of a transition to it.
ThirdNodeCurrent ==
    /\ Running /\ ~is_fading /\ ticks = frames_for_transition + 1
    /\ curr_phase = RingNode(3) /\ next_phase = RingNode(3)

\* C14 (as claimed): whenever the engine is Steady, pending is the detached
\* placeholder, the node that holds no value.
PendingIsPlaceholderWhenSteady ==
    (Running /\ ~is_fading) =>
        /\ next_phase = Placeholder
        /\ NodeValue(phases, next_phase) = None

\* C15: in Steady state on a node without links (the node of an Ending), a
\* soft move forward or backward, whose target is None, is carried out as a
\* soft move to the first node of the ring: the program keeps running, the
\* transition starts with pending the head of the ring and progress 0, the
\* head's sound starts at volume 0 and current stays.  The program ends with
\* status 1 only when the ring is empty.
NullTargetGoesToHead ==
    /\ status = "exit1" => ListHead(phases) = NoNode
    /\ (Running /\ ~is_fading /\ curr_phase \notin {RingNode(i) : i \in DOMAIN phases}) =>
          /\ NodeNext(phases, curr_phase) = NoNode
          /\ NodePrev(phases, curr_phase) = NoNode
          /\ \A key \in {K_LEFT, K_RIGHT, K_SPACE}, ctrl \in BOOLEAN :
                LET g == HandleKeyDown(Game, key, ctrl)
                    head == NodeValue(phases, ListHead(phases))
                IN  SoftOnly(g.applied) =>
                      /\ g.status = "running"
                      /\ g.is_fading
                      /\ g.fade_step = DblOfInt(0)
                      /\ g.next_phase = ListHead(phases)
                      /\ g.next_phase = RingNode(1)
                      /\ g.curr_phase = curr_phase
                      /\ g.playing[head] = 1 /\ g.volume[head] = 0

\* C15 witness: a transition from the node of an Ending to the head of the
\* ring is in flight, which only a soft move without a target starts.
HeadPendingFromEnding ==
    /\ Running /\ is_fading /\ ticks = 1
    /\ curr_phase = EndingNode(1)
    /\ next_phase = ListHead(phases) /\ next_phase = RingNode(1)

\* C16 (as claimed): when a group of the configuration has no element,
\* building the sequence fails: the builder raises and returns no sequence,
\* not even an empty one, and the program never gets to its loop.
EmptyGroupFailsFast ==
    (status # "new" /\ \E k \in DOMAIN config_phases : config_phases[k] = 0) =>
        /\ GetPhasesRaises(config_phases)
        /\ status = "error"

\* the levels a frame hands to the backend, in the order of the calls
Levels(g) == [i \in DOMAIN g.out |-> g.out[i][3]]

\* C17: on every frame of a transition between two nodes with different
\* sounds, _draw sets the alpha of the incoming image, then the volume of the
\* incoming sound, then the volume of the outgoing sound; the alpha is the
\* progress before the frame's increment truncated to a whole step, the
\* incoming volume is that alpha over 255 and the outgoing volume is 1 minus
\* the incoming one, so the two add up to 1.
AlphaVolumeLockstep ==
    LET curr == NodeValue(phases, curr_phase)
        next == NodeValue(phases, next_phase)
        g    == Draw(Game)
    IN  (Running /\ is_fading /\ curr # next) =>
          /\ Len(g.out) = 3
          /\ g.out[1] = <<"set_alpha", next, Levels(g)[1]>>
          /\ g.out[2] = <<"set_volume", next, Levels(g)[2]>>
          /\ g.out[3] = <<"set_volume", curr, Levels(g)[3]>>
          /\ ~DblLess(fade_step, DblOfInt(Levels(g)[1]))
          /\ DblLess(fade_step, DblOfInt(Levels(g)[1] + 1))
          /\ Levels(g)[2] = Levels(g)[1]
          /\ Levels(g)[3] = FullVolume - Levels(g)[2]
          /\ Levels(g)[2] + Levels(g)[3] = FullVolume
          /\ g.is_fading =>
                /\ g.volume[next] = Levels(g)[2]
                /\ g.volume[curr] = Levels(g)[3]

\* C17 witness: half way through a transition between different sounds the
\* frame sets alpha 127 and the volumes 127/255 and 128/255.
HalfWayLevels ==
    /\ Running /\ is_fading /\ 2 * ticks = frames_for_transition
    /\ NodeValue(phases, curr_phase) # NodeValue(phases, next_phase)
    /\ Levels(Draw(Game)) = <<127, 127, 128>>

\* every level the step hands to set_alpha and set_volume is a whole number
\* of 255ths between 0 and 255
LevelsInRange(g) == \A i \in DOMAIN g.out : Levels(g)[i] \in 0 .. FullVolume

\* C18 (as claimed): every alpha set on an image is an integer of 0..255 and
\* every volume handed to set_volume lies in 0..1, in the frames as in the
\* handlers; on the last frame of a transition the incoming alpha is 255 and
\* the incoming volume is 1.
LevelsInRangeAndFullAtEnd ==
    Running =>
        /\ \A key \in Keys, ctrl \in BOOLEAN :
              LevelsInRange(HandleKeyDown(Game, key, ctrl))
        /\ LevelsInRange(Draw(Game))
        /\ (is_fading /\ ~Draw(Game).is_fading) =>
              /\ Levels(Draw(Game))[1] = 255
              /\ Levels(Draw(Game))[2] = FullVolume

\* what the code does: the levels are in range, and the last frame of a
\* transition sets alpha 254 and the incoming volume 254/255
LevelsInRangeShortAtEnd ==
    Running =>
        /\ \A key \in Keys, ctrl \in BOOLEAN :
              LevelsInRange(HandleKeyDown(Game, key, ctrl))
        /\ LevelsInRange(Draw(Game))
        /\ (is_fading /\ ~Draw(Game).is_fading) =>
              /\ Levels(Draw(Game))[1] = 254
              /\ Levels(Draw(Game))[2] = FullVolume - 1

\* C19 (as claimed): whenever the engine is Steady in the running loop, the
\* sound of the current node loops at volume 1 and no other Phase or Ending
\* sound plays.
SteadyPlaysCurrentOnly ==
    (Running /\ ~is_fading) =>
        LET curr == NodeValue(phases, curr_phase)
        IN  /\ playing[curr] >= 1
            /\ volume[curr] = FullVolume
            /\ \A v \in DOMAIN playing \ {curr} : playing[v] = 0

\* what the code does: in Steady state no sound but the current node's
\* plays, and that one plays unless the last soft move went to a node with
\* the sound of the node it left
SteadyPlaysNoOther ==
    (Running /\ ~is_fading) =>
        LET curr == NodeValue(phases, curr_phase)
        IN  /\ playing[curr] <= 1
            /\ \A v \in DOMAIN playing \ {curr} : playing[v] = 0

\* the backgrounds a frame drawn in state g blits have the size of the window
DrawnAtWindowSize(g) ==
    /\ g.background[NodeValue(g.phases, g.curr_phase)] = g.window_size
    /\ g.is_fading =>
          g.background[NodeValue(g.phases, g.next_phase)] = g.window_size

\* the toggle of the display mode leaves current, pending, progress and the
\* fading flag as they are and sets the size of the window
ToggleKeepsNavigation ==
    Running =>
        \A key \in {K_F11, K_f}, ctrl \in BOOLEAN :
            LET g == HandleKeyDown(Game, key, ctrl)
            IN  /\ g.applied = <<"toggle_display_mode">>
                /\ g.curr_phase = curr_phase /\ g.next_phase = next_phase
                /\ g.fade_step = fade_step /\ g.is_fading = is_fading
                /\ g.is_fullscreen = ~is_fullscreen
                /\ g.window_size =
                      IF g.is_fullscreen THEN display ELSE WINDOWED_SIZE

\* C20 (as claimed): every background a frame blits has the size of the
\* window: the current one and, during a transition, the pending one, also
\* right after the display mode was toggled, in Steady state or during a
\* transition; the toggle changes nothing of current, pending, progress and
\* the fading flag.
DrawnImagesFitWindow ==
    Running =>
        /\ DrawnAtWindowSize(Game)
        /\ \A key \in {K_F11, K_f}, ctrl \in BOOLEAN :
              DrawnAtWindowSize(HandleKeyDown(Game, key, ctrl))
        /\ ToggleKeepsNavigation

=============================================================================
